---- MODULE Spec2Model ----
(***************************************************************************)
(* Model of mirix_service.py: a FastAPI gateway that maps a repository     *)
(* identifier to a MIRIX user (get_or_create_user) and forwards            *)
(* /mirix/add and /mirix/system_prompt to the memory engine.               *)
(*                                                                         *)
(* Module start-up (lines 8-22 and the route decorators) is modelled by    *)
(* mpc; every request is a process whose steps are the engine calls of     *)
(* its handler.  Handlers are plain `def`, so the framework runs them in   *)
(* worker threads: under Spec their engine calls interleave freely, under  *)
(* SeqSpec a request is only received when no other is in flight.          *)
(* Every engine call may raise.                                            *)
(***************************************************************************)
EXTENDS Integers, Sequences, FiniteSets

VARIABLES env, mpc, memory_agent, routes, users, memories,
          pc, req, user, resp, calls

vars == <<env, mpc, memory_agent, routes, users, memories,
          pc, req, user, resp, calls>>

\* ---------------------------------------------------------------- bounds
NReq == 2
MaxInit == 2

\* ---------------------------------------------------------------- values
Procs == 1..NReq
Repos == {"a/b", "A/b"}
\* req.text of /mirix/add, req.conversation of /mirix/system_prompt
Payloads(kind) ==
  IF kind = "add" THEN {"fixed bug #12", "bump deps"} ELSE {"widget sizing"}

None == [tag |-> "none", val |-> ""]
Str(s) == [tag |-> "str", val |-> s]

\* what os.getenv("ANTHROPIC_API_KEY") can yield
EnvKeys == {None, Str(""), Str("sk-ant")}
\* what extract_memory_for_system_prompt can yield (string | absent)
EngineContexts == {None, Str(""), Str("likes small widgets")}

NoUser == [id |-> 0, name |-> ""]
NoReq == [kind |-> "", repo |-> "", payload |-> ""]
NoResp == [code |-> 0, field |-> "", val |-> None]

\* str.lower() on the identifiers of Repos
Lower(s) == IF s = "A/b" THEN "a/b" ELSE s

\* ------------------------------------------------------- pure functions
\* `not anthropic_key`
KeyMissingNoneOnly(k) == k = None
KeyMissing(k) == k = None \/ k = Str("")

NameEqFold(a, b) == Lower(a) = Lower(b)
\* user.name == repo
NameEq(a, b) == a = b

FirstMatchHeadOnly(us, repo) ==
  IF Len(us) > 0 /\ NameEq(us[1].name, repo) THEN 1 ELSE 0
\* the for loop of get_or_create_user: index of the first user whose name
\* equals repo, 0 when the loop falls through
FirstMatch(us, repo) ==
  LET I == {i \in 1..Len(us) : NameEq(us[i].name, repo)}
  IN IF I = {} THEN 0 ELSE CHOOSE i \in I : \A j \in I : i <= j

OrEmptyIdentity(v) == v
\* memory_context or ""
OrEmpty(v) == IF v.tag = "str" /\ v.val # "" THEN v ELSE Str("")

\* --------------------------------------------------------------- helpers
Call(op, arg, uid, ok, ret) ==
  [op |-> op, arg |-> arg, uid |-> uid, ok |-> ok, ret |-> ret]
Log(p, c) == calls' = [calls EXCEPT ![p] = Append(@, c)]
Finished(p) == pc[p] \in {"done", "failed"}
Quiet == \A q \in Procs : pc[q] = "idle" \/ Finished(q)
CountNamed(us, r) == Cardinality({i \in 1..Len(us) : us[i].name = r})
CallsOf(p, op) == {i \in 1..Len(calls[p]) : calls[p][i].op = op}

RECURSIVE InjSeqs(_, _)
InjSeqs(S, n) ==
  IF n = 0 THEN {<<>>}
  ELSE LET R == InjSeqs(S, n - 1)
       IN R \cup {Append(s, x) : s \in {t \in R : Len(t) = n - 1},
                                 x \in S}
UniqueNames(s) == \A i, j \in 1..Len(s) : s[i] = s[j] => i = j
\* engine contents before the gateway starts: at most one user per name
InitialUsers ==
  {[i \in 1..Len(s) |-> [id |-> i, name |-> s[i]]] :
     s \in {t \in InjSeqs(Repos, MaxInit) : UniqueNames(t)}}

\* ------------------------------------------------------------------ Init
Init ==
  /\ env \in EnvKeys
  /\ mpc = "check"
  /\ memory_agent = FALSE
  /\ routes = {}
  /\ users \in InitialUsers
  /\ memories = {}
  /\ pc = [p \in Procs |-> "idle"]
  /\ req = [p \in Procs |-> NoReq]
  /\ user = [p \in Procs |-> NoUser]
  /\ resp = [p \in Procs |-> NoResp]
  /\ calls = [p \in Procs |-> <<>>]

reqVars == <<pc, req, user, resp, calls>>
bootVars == <<env, mpc, memory_agent, routes>>

\* -------------------------------------------------------------- start-up
\* lines 14-16: the key is absent or empty, the module raises RuntimeError
CheckKeyFail ==
  /\ mpc = "check"
  /\ KeyMissing(env)
  /\ mpc' = "crashed"
  /\ UNCHANGED <<env, memory_agent, routes, users, memories, reqVars>>

\* lines 14-15: the key is present, execution continues
CheckKeyOk ==
  /\ mpc = "check"
  /\ ~KeyMissing(env)
  /\ mpc' = "construct"
  /\ UNCHANGED <<env, memory_agent, routes, users, memories, reqVars>>

\* lines 18-22: memory_agent = Mirix(...)
ConstructEngine ==
  /\ mpc = "construct"
  /\ memory_agent' = TRUE
  /\ mpc' = "routes"
  /\ UNCHANGED <<env, routes, users, memories, reqVars>>

\* lines 44 and 50: the two @app.post decorators register the handlers
RegisterRoutes ==
  /\ mpc = "routes"
  /\ routes' = {"add", "system_prompt"}
  /\ mpc' = "serving"
  /\ UNCHANGED <<env, memory_agent, users, memories, reqVars>>

\* -------------------------------------------------------------- requests
\* the framework dispatches a request to add_memory / system_prompt
Receive(p, kind, repo, payload) ==
  /\ kind \in routes
  /\ pc[p] = "idle"
  /\ \A q \in Procs : q < p => pc[q] # "idle"
  /\ pc' = [pc EXCEPT ![p] = "list"]
  /\ req' = [req EXCEPT ![p] = [kind |-> kind, repo |-> repo,
                                payload |-> payload]]
  /\ UNCHANGED <<bootVars, users, memories, user, resp, calls>>

\* sequential use: the client waits for the answer before the next request
SeqReceive(p, kind, repo, payload) ==
  /\ Quiet
  /\ Receive(p, kind, repo, payload)

PropagateRetry(p, op) ==
  /\ Log(p, Call(op, "", 0, FALSE, None))
  /\ UNCHANGED <<pc, resp>>
\* an exception of an engine call leaves the handler: the request fails
Propagate(p, op) ==
  /\ pc' = [pc EXCEPT ![p] = "failed"]
  /\ resp' = [resp EXCEPT ![p] = [code |-> 500, field |-> "", val |-> None]]
  /\ Log(p, Call(op, "", 0, FALSE, None))

\* lines 38-41: list_users() returns, the scan finds a user named repo
ListUsersHit(p) ==
  /\ pc[p] = "list"
  /\ memory_agent
  /\ FirstMatch(users, req[p].repo) # 0
  /\ user' = [user EXCEPT ![p] = users[FirstMatch(users, req[p].repo)]]
  /\ pc' = [pc EXCEPT ![p] = "delegate"]
  /\ Log(p, Call("list_users", "", 0, TRUE, None))
  /\ UNCHANGED <<bootVars, users, memories, req, resp>>

ListUsersMissNotFound(p) ==
  /\ pc[p] = "list"
  /\ memory_agent
  /\ FirstMatch(users, req[p].repo) = 0
  /\ pc' = [pc EXCEPT ![p] = "failed"]
  /\ resp' = [resp EXCEPT ![p] = [code |-> 404, field |-> "", val |-> None]]
  /\ Log(p, Call("list_users", "", 0, TRUE, None))
  /\ UNCHANGED <<bootVars, users, memories, req, user>>
\* lines 38-42: list_users() returns, the loop falls through to create_user
ListUsersMiss(p) ==
  /\ pc[p] = "list"
  /\ memory_agent
  /\ FirstMatch(users, req[p].repo) = 0
  /\ pc' = [pc EXCEPT ![p] = "create"]
  /\ Log(p, Call("list_users", "", 0, TRUE, None))
  /\ UNCHANGED <<bootVars, users, memories, req, user, resp>>

\* line 38: list_users() raises
ListUsersFail(p) ==
  /\ pc[p] = "list"
  /\ memory_agent
  /\ Propagate(p, "list_users")
  /\ UNCHANGED <<bootVars, users, memories, req, user>>

\* the engine appends a user with a fresh id
EngineCreate(us, name) == Append(us, [id |-> Len(us) + 1, name |-> name])

CreateUserIfAbsent(p) ==
  /\ pc[p] = "create"
  /\ users' = IF FirstMatch(users, req[p].repo) = 0
              THEN EngineCreate(users, req[p].repo) ELSE users
  /\ user' = [user EXCEPT ![p] = users'[FirstMatch(users', req[p].repo)]]
  /\ pc' = [pc EXCEPT ![p] = "delegate"]
  /\ Log(p, Call("create_user", req[p].repo, user'[p].id, TRUE, None))
  /\ UNCHANGED <<bootVars, memories, req, resp>>
CreateUserTwice(p) ==
  /\ pc[p] = "create"
  /\ users' = EngineCreate(EngineCreate(users, req[p].repo), req[p].repo)
  /\ user' = [user EXCEPT ![p] = users'[Len(users')]]
  /\ pc' = [pc EXCEPT ![p] = "delegate"]
  /\ Log(p, Call("create_user", req[p].repo, user'[p].id, TRUE, None))
  /\ UNCHANGED <<bootVars, memories, req, resp>>
CreateUserLowered(p) ==
  /\ pc[p] = "create"
  /\ users' = EngineCreate(users, Lower(req[p].repo))
  /\ user' = [user EXCEPT ![p] = users'[Len(users')]]
  /\ pc' = [pc EXCEPT ![p] = "delegate"]
  /\ Log(p, Call("create_user", req[p].repo, user'[p].id, TRUE, None))
  /\ UNCHANGED <<bootVars, memories, req, resp>>
\* line 42: return memory_agent.create_user(user_name=repo)
CreateUser(p) ==
  /\ pc[p] = "create"
  /\ users' = EngineCreate(users, req[p].repo)
  /\ user' = [user EXCEPT ![p] = users'[Len(users')]]
  /\ pc' = [pc EXCEPT ![p] = "delegate"]
  /\ Log(p, Call("create_user", req[p].repo, user'[p].id, TRUE, None))
  /\ UNCHANGED <<bootVars, memories, req, resp>>

\* line 42: create_user() raises
CreateUserFail(p) ==
  /\ pc[p] = "create"
  /\ Propagate(p, "create_user")
  /\ UNCHANGED <<bootVars, users, memories, req, user>>

\* lines 47-48: memory_agent.add(req.text, user_id=user.id) returns,
\* the handler answers {"status": "ok"}
Add(p) ==
  /\ pc[p] = "delegate"
  /\ req[p].kind = "add"
  /\ memories' = memories \cup {[text |-> req[p].payload, user_id |-> user[p].id]}
  /\ Log(p, Call("add", req[p].payload, user[p].id, TRUE, None))
  /\ resp' = [resp EXCEPT ![p] = [code |-> 200, field |-> "status",
                                  val |-> Str("ok")]]
  /\ pc' = [pc EXCEPT ![p] = "done"]
  /\ UNCHANGED <<bootVars, users, req, user>>

AddFailRollback(p) ==
  /\ pc[p] = "delegate"
  /\ req[p].kind = "add"
  /\ Propagate(p, "add")
  /\ users' = IF CallsOf(p, "create_user") # {}
              THEN SelectSeq(users, LAMBDA u : u.id # user[p].id) ELSE users
  /\ UNCHANGED <<bootVars, memories, req, user>>
\* line 47: add() raises
AddFail(p) ==
  /\ pc[p] = "delegate"
  /\ req[p].kind = "add"
  /\ Propagate(p, "add")
  /\ UNCHANGED <<bootVars, users, memories, req, user>>

\* lines 54-58: extract_memory_for_system_prompt(req.conversation,
\* user_id=user.id) returns r, the handler answers
\* {"memory_context": r or ""}
Extract(p) ==
  /\ pc[p] = "delegate"
  /\ req[p].kind = "system_prompt"
  /\ \E r \in EngineContexts :
       /\ Log(p, Call("extract", req[p].payload, user[p].id, TRUE, r))
       /\ resp' = [resp EXCEPT ![p] = [code |-> 200,
                                       field |-> "memory_context",
                                       val |-> OrEmpty(r)]]
  /\ pc' = [pc EXCEPT ![p] = "done"]
  /\ UNCHANGED <<bootVars, users, memories, req, user>>

\* lines 54-57: extract_memory_for_system_prompt() raises
ExtractFail(p) ==
  /\ pc[p] = "delegate"
  /\ req[p].kind = "system_prompt"
  /\ Propagate(p, "extract")
  /\ UNCHANGED <<bootVars, users, memories, req, user>>

Startup == CheckKeyFail \/ CheckKeyOk \/ ConstructEngine \/ RegisterRoutes

Step(p) ==
  \/ ListUsersHit(p) \/ ListUsersMiss(p) \/ ListUsersFail(p)
  \/ CreateUser(p) \/ CreateUserFail(p)
  \/ Add(p) \/ AddFail(p)
  \/ Extract(p) \/ ExtractFail(p)

Next ==
  \/ Startup
  \/ \E p \in Procs : \E k \in {"add", "system_prompt"}, r \in Repos :
       \E t \in Payloads(k) : Receive(p, k, r, t)
  \/ \E p \in Procs : Step(p)

SeqNext ==
  \/ Startup
  \/ \E p \in Procs : \E k \in {"add", "system_prompt"}, r \in Repos :
       \E t \in Payloads(k) : SeqReceive(p, k, r, t)
  \/ \E p \in Procs : Step(p)

Spec == Init /\ [][Next]_vars
SeqSpec == Init /\ [][SeqNext]_vars

\* ------------------------------------------------------------ properties
OkCalls(p, op) == {i \in CallsOf(p, op) : calls[p][i].ok}
Created(p) == OkCalls(p, "create_user") # {}
Missed(p) == pc[p] = "create" \/ CallsOf(p, "create_user") # {}
HasFail(p) == \E i \in 1..Len(calls[p]) : ~calls[p][i].ok
Returned(p) == user[p] # NoUser
InEngine(u) == \E i \in 1..Len(users) : users[i] = u
Delegations(p) == CallsOf(p, "add") \cup CallsOf(p, "extract")

\* C1: under sequential use, the call that creates a user for r leaves
\* exactly one user named r, and every later get_or_create_user(r) returns
\* a user with the id the first call returned and creates no user.
C1_SequentialIdempotent ==
  \A p \in Procs :
    Returned(p) =>
      /\ user[p].name = req[p].repo
      /\ InEngine(user[p])
      /\ CountNamed(users, req[p].repo) = 1
      /\ \A q \in Procs :
           (p < q /\ req[q].repo = req[p].repo /\ Returned(q)) =>
             /\ user[q].id = user[p].id
             /\ CallsOf(q, "create_user") = {}

C1_Witness ==
  \E p, q \in Procs :
    /\ p < q /\ req[q].repo = req[p].repo
    /\ Created(p) /\ pc[p] = "done" /\ pc[q] = "done"
    /\ ~HasFail(p) /\ ~HasFail(q)
    /\ user[q].id = user[p].id
    /\ CountNamed(users, req[p].repo) = 1

\* C2: two concurrent requests for the same unseen identifier that both
\* list before either creates both call create_user, and the engine then
\* holds two users with that name.
C2_RaceCreatesTwo ==
  \A p, q \in Procs :
    (p # q /\ req[p].repo = req[q].repo /\ Created(p) /\ Created(q)) =>
      /\ CountNamed(users, req[p].repo) >= 2
      /\ user[p].id # user[q].id

C2_Witness ==
  \E p, q \in Procs :
    /\ req[p].repo = req[q].repo
    /\ req[p].kind = "add" /\ req[q].kind = "system_prompt"
    /\ Created(p) /\ Created(q)
    /\ CountNamed(users, req[p].repo) = 2

\* C3: under sequential use, starting from at most one user per name,
\* every state between requests holds at most one user per identifier.
C3_AtMostOnePerName ==
  Quiet => \A r \in Repos : CountNamed(users, r) <= 1

C3_Witness ==
  /\ \A p \in Procs : pc[p] = "done"
  /\ \E p, q \in Procs : p < q /\ req[p].repo = req[q].repo /\ Created(p)
  /\ \A r \in Repos : CountNamed(users, r) = 1

\* C4: a successful /mirix/system_prompt response carries memory_context
\* as a string: "" when the engine returned None or "", the engine's text
\* unchanged otherwise.
C4_ContextIsString ==
  \A p \in Procs :
    (req[p].kind = "system_prompt" /\ pc[p] = "done") =>
      LET r == calls[p][Len(calls[p])].ret
      IN /\ resp[p].code = 200
         /\ resp[p].field = "memory_context"
         /\ resp[p].val.tag = "str"
         /\ (r = None \/ r = Str("")) => resp[p].val = Str("")
         /\ ~(r = None \/ r = Str("")) => resp[p].val = r

C4_Witness ==
  \E p \in Procs :
    /\ req[p].kind = "system_prompt" /\ pc[p] = "done"
    /\ calls[p][Len(calls[p])].ret = None
    /\ resp[p].val = Str("")

\* C5: a /mirix/add answered {"status": "ok"} first resolved a user whose
\* name equals repo exactly, then made exactly one add call with the
\* request's text and that user's id, and only then answered.
C5_AddAfterResolve ==
  \A p \in Procs :
    (req[p].kind = "add" /\ resp[p].code = 200) =>
      LET n == Len(calls[p])
      IN /\ resp[p].field = "status" /\ resp[p].val = Str("ok")
         /\ user[p].name = req[p].repo
         /\ InEngine(user[p])
         /\ CallsOf(p, "add") = {n}
         /\ calls[p][n] = Call("add", req[p].payload, user[p].id, TRUE, None)
         /\ calls[p][1] = Call("list_users", "", 0, TRUE, None)
         /\ \/ n = 2
            \/ /\ n = 3
               /\ calls[p][2] =
                    Call("create_user", req[p].repo, user[p].id, TRUE, None)

C5_Witness ==
  \E p \in Procs :
    /\ req[p].kind = "add" /\ resp[p].code = 200
    /\ req[p].repo = "a/b"
    /\ Len(calls[p]) = 2
    /\ users[1].name = "A/b"
    /\ user[p].name = "a/b"

\* C6: an engine call that fails ends the request as a failure: it is the
\* request's last engine call, no success response is produced, and no
\* call is repeated (at most one list_users, one create_user, one
\* add/extract per request).
C6_FailurePropagates ==
  \A p \in Procs :
    /\ Cardinality(CallsOf(p, "list_users")) <= 1
    /\ Cardinality(CallsOf(p, "create_user")) <= 1
    /\ Cardinality(Delegations(p)) <= 1
    /\ \A i \in 1..Len(calls[p]) :
         ~calls[p][i].ok =>
           /\ i = Len(calls[p])
           /\ pc[p] = "failed"
           /\ resp[p].code = 500

C6_Witness ==
  \E p, q \in Procs :
    /\ pc[p] = "failed" /\ Len(calls[p]) = 2
    /\ calls[p][2].op = "create_user"
    /\ pc[q] = "failed" /\ Len(calls[q]) = 1

\* C7: a request for an unseen identifier is never an error when the
\* engine calls succeed: the user is created before the delegation and
\* the response has the shape a request for an existing user gets.
C7_UnseenIsNotAnError ==
  \A p \in Procs :
    /\ resp[p].code \in {0, 200, 500}
    /\ pc[p] = "failed" => HasFail(p)
    /\ (pc[p] = "done" /\ req[p].kind = "add") =>
         (resp[p].field = "status" /\ resp[p].val = Str("ok"))
    /\ (pc[p] = "done" /\ req[p].kind = "system_prompt") =>
         (resp[p].field = "memory_context" /\ resp[p].val.tag = "str")
    /\ \A i \in CallsOf(p, "create_user"), j \in Delegations(p) : i < j
    /\ (Missed(p) /\ ~HasFail(p) /\ pc[p] # "create") => Created(p)

C7_Witness ==
  \E p, q \in Procs :
    /\ pc[p] = "done" /\ pc[q] = "done"
    /\ Created(p) /\ ~Missed(q)
    /\ resp[p] = resp[q]

\* C8 (as stated): users are never changed or removed, a request whose
\* scan hits leaves the users unchanged, and a request whose scan misses
\* adds exactly one user, named the requested identifier.
UsersKept ==
  /\ Len(users') >= Len(users)
  /\ \A i \in 1..Len(users) : users'[i] = users[i]
AddedBy(p) ==
  /\ Len(calls'[p]) = Len(calls[p]) + 1
  /\ calls'[p][Len(calls'[p])].op = "create_user"
  /\ calls'[p][Len(calls'[p])].ok
  /\ users' = Append(users, [id |-> calls'[p][Len(calls'[p])].uid,
                             name |-> req[p].repo])
  /\ Missed(p)
FrameOfUsers ==
  /\ UsersKept
  /\ users' # users => \E p \in Procs : AddedBy(p)
  /\ \A p \in Procs :
       (Len(calls'[p]) > Len(calls[p])
          /\ calls'[p][Len(calls'[p])].op = "create_user"
          /\ calls'[p][Len(calls'[p])].ok) => AddedBy(p)

C8_MissAddsExactlyOne ==
  [][/\ FrameOfUsers
     /\ \A p \in Procs :
          (Finished(p)' /\ Missed(p)') =>
             Cardinality(OkCalls(p, "create_user"))' = 1]_vars

\* C8 (amended): users are never changed or removed, a request whose scan
\* hits leaves the users unchanged, and a request whose scan misses makes
\* one create_user call, which adds exactly one user, named the requested
\* identifier, when it returns and adds none when it raises.
C8_MissAddsOneIfCreated ==
  [][/\ FrameOfUsers
     /\ \A p \in Procs :
          /\ (Finished(p)' /\ Missed(p)') =>
               Cardinality(CallsOf(p, "create_user"))' = 1
          /\ (Len(calls'[p]) > Len(calls[p])
                /\ ~calls'[p][Len(calls'[p])].ok) => users' = users]_vars

C8_Witness ==
  \E p, q \in Procs :
    /\ pc[p] = "failed" /\ Missed(p) /\ ~Created(p)
    /\ Finished(q) /\ Created(q)
    /\ InEngine(user[q])

\* C9: with ANTHROPIC_API_KEY absent or empty the module raises at
\* start-up: the engine handle is never constructed, no route exists and
\* no request is received or answered.
C9_NoKeyNoService ==
  (env = None \/ env = Str("")) =>
    /\ mpc \in {"check", "crashed"}
    /\ ~memory_agent
    /\ routes = {}
    /\ \A p \in Procs :
         pc[p] = "idle" /\ resp[p] = NoResp /\ calls[p] = <<>>

C9_Witness ==
  env = Str("") /\ mpc = "crashed"

\* C10: under sequential use, a request that created a user and then
\* failed in add/extract leaves that user in the engine, and a later
\* request for the same identifier gets that user's id from the scan
\* without calling create_user.
C10_NoRollback ==
  \A p \in Procs :
    (Created(p) /\ pc[p] = "failed") =>
      /\ InEngine(user[p])
      /\ user[p].name = req[p].repo
      /\ \A q \in Procs :
           (p < q /\ req[q].repo = req[p].repo
              /\ OkCalls(q, "list_users") # {}) =>
             /\ user[q] = user[p]
             /\ CallsOf(q, "create_user") = {}
             /\ pc[q] # "create"

C10_Witness ==
  \E p, q \in Procs :
    /\ p < q /\ req[q].repo = req[p].repo
    /\ Created(p) /\ pc[p] = "failed"
    /\ pc[q] = "done" /\ user[q] = user[p]
    /\ CallsOf(q, "create_user") = {}
====
